---- MODULE Spec2Model ----
(***************************************************************************)
(* Model of the bulk-transfer core of quickloop: the batch upload of       *)
(* ChatRoomScreen.uploadMultipleImages with the upload client it calls     *)
(* (uploadRoomImage, uploadToCloudinary), the room feed (images) with its  *)
(* initial load, realtime INSERT/DELETE handlers and optimistic deletes,   *)
(* and the realtime subscription's status callback.                        *)
(*                                                                         *)
(* JavaScript runs one callback at a time, so every action below is one    *)
(* callback (or one continuation after an await) run to its next await.    *)
(* Progress values are kept in thousandths (1.0 = 1000).                   *)
(***************************************************************************)
EXTENDS Integers, Sequences, FiniteSets, Bags, TLC

\* ------------------------------------------------------------------ bounds
\* Largest number of uris handed to uploadMultipleImages.
MaxUris == 3
\* Largest number of progressTimer ticks followed during one batch.
MaxTicks == 3
\* Image ids the room's table can hold in the feed model.
MaxIds == 2
\* Realtime events in flight at once in the feed model.
MaxChan == 2
\* getRoomImages calls in flight at once in the feed model.
MaxLoads == 1
\* Local deletes (handleDeleteImage) followed by the feed model.
MaxDeletes == 1
\* Subscription status reports followed by the subscription model.
MaxStatus == 5
\* Image urls in the cache and download models.
MaxUrls == 2
\* Clock advances followed by the cache model.
MaxClock == 3

\* ------------------------------------------------------- program constants
\* uploadMultipleImages: const batchSize = 2
batchSize == 2
\* uploadMultipleImages: const maxRetries = 3
maxRetries == 3
\* uploadToCloudinary: const MAX_RETRIES = 3
MAX_RETRIES == 3
\* setUploadProgress(1), in thousandths
ProgressOne == 1000
\* progressTimer: if (prev < 0.95), in thousandths
ProgressCap == 950
\* progressTimer: (0.95 - prev) * 0.15, in hundredths
ProgressGain == 15
\* status callback: const maxRetries = 3
subMaxRetries == 3
\* status callback: Math.pow(2, retryCount) * 2000
baseDelay == 2000

\* No record: uploadRoomImage's null, a RoomImage without a row.
Null == 0

VARIABLES
  \* ---- uploadMultipleImages
  upPc,              \* position of the async function
  totalUploads,      \* uris.length
  queue,             \* const queue = [...uris]
  batch,             \* the items of the Promise.allSettled in progress
  job,               \* per uri: its uploadRoomImage call (st), the attempt
                     \* of uploadToCloudinary, whether that returned a url
  retries,           \* const retries = new Map<string, number>()
  completedUploads,  \* let completedUploads
  failedUploads,     \* let failedUploads
  uploadProgress,    \* useState uploadProgress, thousandths
  progressTimer,     \* the setInterval is armed
  ticks,             \* timer ticks so far (bounded by MaxTicks)
  uploadToast,       \* the toast uploadMultipleImages showed
  uploading,         \* useState uploading
  tries,             \* history: fetch attempts made per uri, over all calls
  rowOf,             \* history: the id of the row inserted for each uri
  counted,           \* history: per uri, times counted completed / failed
  \* ---- the data service and its change feed
  server,            \* ids of the rows of room_images for this room
  channel,           \* realtime events sent to this client, not yet delivered
  nextId,            \* the id the data service gives the next inserted row
  \* ---- the room feed
  images,            \* useState images, newest first (ids)
  loading,           \* useState loading
  queries,           \* getRoomImages queries the data service has not answered
  loads,             \* answered getRoomImages calls not yet resumed: the bag
                     \* of their results
  feedToast,         \* the toast shown by the feed handler that ran last
  deleting,          \* deleteRoomImage calls in flight (ids)
  entered,           \* the room effect has run
  roomCreator,       \* room.created_by
  nDeletes,          \* history: local deletes so far
  lastEvent,         \* history: the event given to the realtime handler
                     \* (and whether the feed held its id), if that was the
                     \* feed handler that ran last
  \* ---- the realtime subscription
  subOpen,           \* subscription.current is a channel not yet unsubscribed
  subStatus,         \* last status reported to the subscribe callback
  timers,            \* pending reconnect timeouts (their delays)
  nStatus,           \* history: status reports so far
  nScheduled,        \* history: reconnect timeouts scheduled so far
  exited,            \* the effect cleanup has run
  exitStatus,        \* history: the status the channel had when the cleanup
                     \* ran, and whether the cleanup threw
  \* ---- bulk deletes (selected images, all images)
  bulk,              \* deleteMultipleRoomImages calls in flight: their ids
  \* ---- the image cache (AsyncStorage metadata, cache directory, clock)
  cacheMeta,         \* IMAGE_CACHE: per url, whether it has an entry and
                     \* the entry's timestamp
  files,             \* urls whose cachedPath file exists
  now,               \* Date.now()
  nAdvance,          \* history: clock advances so far
  saves,             \* per url, the cacheImage call of the preload batch:
                     \* its position and the copy of IMAGE_CACHE it holds
  \* ---- downloadMultipleImages
  dlPc,              \* position of the async function
  dlImages,          \* images.length
  dlIndex,           \* the item the for loop is at
  successCount,      \* let successCount
  dlStatus,          \* status of MediaLibrary.requestPermissionsAsync()
  dlResult,          \* the value returned
  platform,          \* Platform.OS
  dlLookups,         \* history: getCachedImageUri calls made
  dlDownloads,       \* history: FileSystem.downloadAsync calls made
  dlAssets           \* history: assets created in the media library

upVars == <<upPc, totalUploads, queue, batch, job, retries, completedUploads,
            failedUploads, uploadProgress, progressTimer, ticks, uploadToast,
            uploading, tries, rowOf, counted>>
netVars == <<server, channel, nextId>>
feedVars == <<images, loading, queries, loads, feedToast, deleting, entered,
              roomCreator, nDeletes, lastEvent>>
subVars == <<subOpen, subStatus, timers, nStatus, nScheduled, exited,
             exitStatus>>
bulkVars == <<bulk>>
cacheVars == <<cacheMeta, files, now, nAdvance, saves>>
dlVars == <<dlPc, dlImages, dlIndex, successCount, dlStatus, dlResult,
            platform, dlLookups, dlDownloads, dlAssets>>
libVars == <<cacheVars, dlVars>>
vars == <<upVars, netVars, feedVars, subVars, bulkVars, libVars>>

\* ----------------------------------------------------------------- helpers
Uris == 1..MaxUris
Ids == 1..MaxIds

Range(s) == {s[k] : k \in 1..Len(s)}

NoDuplicates(s) == \A a, b \in 1..Len(s) : a # b => s[a].id # s[b].id

RECURSIVE FilterOut(_, _)
\* prevImages.filter(img => img.id !== id)
FilterOut(s, id) ==
  IF s = <<>> THEN <<>>
  ELSE IF Head(s).id = id THEN FilterOut(Tail(s), id)
       ELSE <<Head(s)>> \o FilterOut(Tail(s), id)

Min(a, b) == IF a < b THEN a ELSE b

\* A RoomImage: its id and its uploaded_by.
Row(id, by) == [id |-> id, uploaded_by |-> by]

\* The local user (userName) and another participant.
Me == "me"
Users == {"me", "other"}

IdsOf(s) == {s[k].id : k \in 1..Len(s)}

\* No realtime event.
NoEvent == [type |-> "none", row |-> Row(Null, ""), had |-> FALSE]

\* What is remembered of an event given to the realtime handler: the event
\* and whether the feed held its id when the handler ran.
Handled(event, prevImages) ==
  [type |-> event.type, row |-> event.row,
   had |-> event.row.id \in {prevImages[k].id : k \in 1..Len(prevImages)}]

RECURSIVE SortDesc(_)
\* .order('uploaded_at', { ascending: false }): ids are given in upload
\* order, so newest first is largest id first.
SortDesc(S) ==
  IF S = {} THEN <<>>
  ELSE LET top == CHOOSE r \in S : \A q \in S : q.id <= r.id
       IN <<top>> \o SortDesc(S \ {top})

\* ----------------------------------------------------------- data service
\* The room_images table takes a row uploaded by `by`: it gets the next id,
\* and the change feed sends an INSERT to the subscribed client.
ServerInsertRow(by) ==
  /\ server' = server \cup {Row(nextId, by)}
  /\ nextId' = nextId + 1
  /\ channel' = IF subOpen
                  THEN Append(channel, [type |-> "INSERT", row |-> Row(nextId, by)])
                  ELSE channel

\* The table loses the row with this id (if it has it); the change feed
\* sends a DELETE carrying the old row's id.
ServerDeleteRow(id) ==
  /\ server' = {r \in server : r.id # id}
  /\ nextId' = nextId
  /\ channel' = IF subOpen /\ id \in {r.id : r \in server}
                  THEN Append(channel, [type |-> "DELETE", row |-> Row(id, "")])
                  ELSE channel

\* ------------------------------------------------------------ upload client
CloudOutcomes == {"ok", "timeout", "network", "rejected"}
DbOutcomes == {"ok", "error", "throw"}

\* uploadToCloudinary's catch: only a timeout or a network error is retried,
\* and only while attempt < MAX_RETRIES.
CloudRetries(attempt, outcome) ==
  attempt < MAX_RETRIES /\ outcome \in {"timeout", "network"}

\* uploadRoomImage's catch block: log and return null.
uploadRoomImageRethrow(error) == [threw |-> TRUE, value |-> Null]
uploadRoomImageCatch(error) == [threw |-> FALSE, value |-> Null]

\* uploadRoomImage after uploadToCloudinary returned: insert the row; an
\* error answer gives null, a thrown error goes to the catch block.
uploadRoomImageInsert(outcome, id) ==
  CASE outcome = "ok" -> [threw |-> FALSE, value |-> id]
    [] outcome = "error" -> [threw |-> FALSE, value |-> Null]
    [] OTHER -> uploadRoomImageCatch(outcome)

\* ---------------------------------------------------- uploadMultipleImages
\* (completedUploads + failedUploads) / totalUploads, in thousandths
Fraction(done, total) == (done * ProgressOne) \div total

\* the progressTimer's updater
TickProgress(prev) ==
  IF prev < ProgressCap
    THEN prev + ((ProgressCap - prev) * ProgressGain) \div 100
    ELSE prev

\* queue.splice(0, batchSize): what is taken, and what stays in the queue
SliceRest(q) == q
SpliceAll(q) == q
SpliceDropRest(q) == <<>>
SpliceTaken(q) == SubSeq(q, 1, Min(batchSize, Len(q)))
SpliceRest(q) == SubSeq(q, Min(batchSize, Len(q)) + 1, Len(q))

IdleJob == [st |-> "idle", attempt |-> 0, url |-> FALSE]

\* The batch.map callback for the taken uris starts: each enters
\* uploadRoomImage -> uploadToCloudinary with attempt = 0.
StartJobs(jobs, taken) ==
  [i \in Uris |->
     IF i \in Range(taken)
       THEN [st |-> "cloud", attempt |-> 0, url |-> FALSE]
       ELSE jobs[i]]

\* The toast chosen after the loop.
BatchToast(successfulUploads, total) ==
  IF successfulUploads = total THEN "all"
  ELSE IF successfulUploads > 0 THEN "partial"
  ELSE "failed"

\* The callback as it would be if each callback of a batch kept the count it
\* read before its await: the callbacks of one batch overwrite each other.
CallbackLostUpdate(i, res) ==
  LET before == Cardinality({k \in 1..totalUploads :
                               job[k].st = "settled" /\ k \notin Range(batch)})
  IN [completedUploads |-> before + 1,
      failedUploads |-> failedUploads,
      retries |-> retries,
      queue |-> queue,
      uploadProgress |-> Fraction(before + 1 + failedUploads, totalUploads),
      counted |-> [counted EXCEPT ![i].c = @ + 1]]

\* The rest of the batch.map callback once uploadRoomImage has settled with
\* res: the try body after the await, or the catch block with its requeue.
\* The locals and the progress it leaves.
Callback(i, res) ==
  IF ~res.threw
    THEN [completedUploads |-> completedUploads + 1,
          failedUploads |-> failedUploads,
          retries |-> retries,
          queue |-> queue,
          uploadProgress |->
            Fraction(completedUploads + 1 + failedUploads, totalUploads),
          counted |-> [counted EXCEPT ![i].c = @ + 1]]
    ELSE IF retries[i] < maxRetries
      THEN [completedUploads |-> completedUploads,
            failedUploads |-> failedUploads,
            retries |-> [retries EXCEPT ![i] = @ + 1],
            queue |-> Append(queue, i),
            uploadProgress |-> uploadProgress,
            counted |-> counted]
      ELSE [completedUploads |-> completedUploads,
            failedUploads |-> failedUploads + 1,
            retries |-> retries,
            queue |-> queue,
            uploadProgress |->
              Fraction(completedUploads + failedUploads + 1, totalUploads),
            counted |-> [counted EXCEPT ![i].f = @ + 1]]

\* uploadRoomImage for uri i settles with res, the callback runs, and if it
\* was the last of its batch Promise.allSettled resolves in the same turn:
\* the 500 ms delay starts if the queue is not empty; otherwise the loop
\* ends: clearInterval, setUploadProgress(1), the toast.
Settle(i, attempt, res) ==
  LET after == Callback(i, res)
      jobs == [job EXCEPT ![i] = [@ EXCEPT !.st = "settled",
                                           !.attempt = attempt]]
      allSettled == \A k \in Range(batch) : jobs[k].st = "settled"
  IN /\ job' = jobs
     /\ rowOf' = IF res.value # Null THEN [rowOf EXCEPT ![i] = res.value]
                                     ELSE rowOf
     /\ completedUploads' = after.completedUploads
     /\ failedUploads' = after.failedUploads
     /\ retries' = after.retries
     /\ queue' = after.queue
     /\ counted' = after.counted
     /\ IF ~allSettled
          THEN /\ uploadProgress' = after.uploadProgress
               /\ UNCHANGED <<upPc, batch, progressTimer, uploadToast>>
          ELSE IF after.queue # <<>>
            THEN /\ upPc' = "delay"
                 /\ batch' = <<>>
                 /\ uploadProgress' = after.uploadProgress
                 /\ UNCHANGED <<progressTimer, uploadToast>>
            ELSE /\ upPc' = "done"
                 /\ batch' = <<>>
                 /\ progressTimer' = FALSE
                 /\ uploadProgress' = ProgressOne
                 /\ uploadToast' =
                      BatchToast(after.completedUploads, totalUploads)

\* uploadMultipleImages(uris), n = uris.length, up to its first await: the
\* state resets, the progressTimer, and the first batch spliced off the
\* queue and started.
StartBatch(n) ==
  /\ upPc = "idle"
  /\ n > 0
  /\ upPc' = "await"
  /\ uploading' = TRUE
  /\ uploadProgress' = 0
  /\ totalUploads' = n
  /\ completedUploads' = 0
  /\ failedUploads' = 0
  /\ progressTimer' = TRUE
  /\ retries' = [i \in Uris |-> 0]
  /\ LET uris == [k \in 1..n |-> k] IN
       /\ batch' = SpliceTaken(uris)
       /\ queue' = SpliceRest(uris)
       /\ job' = StartJobs(job, SpliceTaken(uris))
  /\ UNCHANGED <<ticks, uploadToast, tries, rowOf, counted>>
  /\ UNCHANGED <<netVars, feedVars, subVars, bulkVars, libVars>>

\* One pass of uploadToCloudinary's loop for uri i: attempt++, the request,
\* and what follows its result: return the url (on to the insert), wait and
\* continue, or throw into uploadRoomImage's catch.
CloudAttempt(i, outcome) ==
  /\ upPc = "await"
  /\ job[i].st = "cloud"
  /\ job[i].attempt < MAX_RETRIES
  /\ tries' = [tries EXCEPT ![i] = @ + 1]
  /\ LET attempt == job[i].attempt + 1 IN
       IF outcome = "ok"
         THEN /\ job' = [job EXCEPT ![i] = [st |-> "db", attempt |-> attempt,
                                              url |-> TRUE]]
              /\ UNCHANGED <<upPc, batch, completedUploads, failedUploads,
                             retries, queue, uploadProgress, counted, rowOf,
                             progressTimer, uploadToast>>
         ELSE IF CloudRetries(attempt, outcome)
           THEN /\ job' = [job EXCEPT ![i].attempt = attempt]
                /\ UNCHANGED <<upPc, batch, completedUploads, failedUploads,
                               retries, queue, uploadProgress, counted, rowOf,
                               progressTimer, uploadToast>>
           ELSE Settle(i, attempt, uploadRoomImageCatch(outcome))
  /\ UNCHANGED <<totalUploads, ticks, uploading>>
  /\ UNCHANGED <<netVars, feedVars, subVars, bulkVars, libVars>>

\* uploadRoomImage's insert into room_images for uri i and the return to the
\* callback. An inserted row is announced on the change feed.
DbInsert(i, outcome) ==
  /\ upPc = "await"
  /\ job[i].st = "db"
  /\ IF outcome = "ok"
       THEN ServerInsertRow(Me)
       ELSE UNCHANGED netVars
  /\ Settle(i, job[i].attempt, uploadRoomImageInsert(outcome, nextId))
  /\ UNCHANGED <<totalUploads, ticks, uploading, tries>>
  /\ UNCHANGED <<feedVars, subVars, bulkVars, libVars>>

\* The 500 ms timeout between batches fires: the next turn of the loop
\* splices a batch off the queue and starts it.
DelayDone ==
  /\ upPc = "delay"
  /\ upPc' = "await"
  /\ batch' = SpliceTaken(queue)
  /\ queue' = SpliceRest(queue)
  /\ job' = StartJobs(job, SpliceTaken(queue))
  /\ UNCHANGED <<totalUploads, retries, completedUploads, failedUploads,
                 uploadProgress, progressTimer, ticks, uploadToast, uploading,
                 tries, rowOf, counted>>
  /\ UNCHANGED <<netVars, feedVars, subVars, bulkVars, libVars>>

\* The finally block's 500 ms timeout.
RetireBatch ==
  /\ upPc = "done"
  /\ upPc' = "retired"
  /\ uploading' = FALSE
  /\ uploadProgress' = 0
  /\ UNCHANGED <<totalUploads, queue, batch, job, retries, completedUploads,
                 failedUploads, progressTimer, ticks, uploadToast, tries,
                 rowOf, counted>>
  /\ UNCHANGED <<netVars, feedVars, subVars, bulkVars, libVars>>

\* The progressTimer's interval fires.
ProgressTick ==
  /\ progressTimer
  /\ ticks < MaxTicks
  /\ ticks' = ticks + 1
  /\ uploadProgress' = TickProgress(uploadProgress)
  /\ UNCHANGED <<upPc, totalUploads, queue, batch, job, retries,
                 completedUploads, failedUploads, progressTimer, uploadToast,
                 uploading, tries, rowOf, counted>>
  /\ UNCHANGED <<netVars, feedVars, subVars, bulkVars, libVars>>

\* ------------------------------------------------------- realtime handlers
\* The postgres_changes callback for an INSERT: prepend the row unless an
\* image with its id is there already; toast for another user's image.
InsertUpdaterNoCheck(prevImages, newImage) == <<newImage>> \o prevImages
InsertUpdater(prevImages, newImage) ==
  IF \E k \in 1..Len(prevImages) : prevImages[k].id = newImage.id
    THEN prevImages
    ELSE <<newImage>> \o prevImages

OnInsertEvent ==
  /\ channel # <<>>
  /\ Head(channel).type = "INSERT"
  /\ LET newImage == Head(channel).row IN
       /\ images' = InsertUpdater(images, newImage)
       /\ feedToast' = IF newImage.id \notin IdsOf(images)
                          /\ newImage.uploaded_by # Me
                         THEN "shared a new image"
                         ELSE "none"
  /\ channel' = Tail(channel)
  /\ UNCHANGED <<server, nextId>>
  /\ lastEvent' = Handled(Head(channel), images)
  /\ UNCHANGED <<loading, queries, loads, deleting, entered, roomCreator,
                 nDeletes>>
  /\ UNCHANGED <<upVars, subVars, bulkVars, libVars>>

\* The toast as it would be without the test that the image was found
\* (deletedImage?.uploaded_by !== userName): an unknown id is "someone"'s.
DeleteToastNoFoundTest(prevImages, id) ==
  IF \E k \in 1..Len(prevImages) :
       prevImages[k].id = id /\ prevImages[k].uploaded_by = Me
    THEN "none"
    ELSE "deleted by uploader"

\* The toast of the DELETE handler: none for an id the feed does not hold or
\* for the local user's own image.
DeleteToast(prevImages, id) ==
  LET found == {k \in 1..Len(prevImages) : prevImages[k].id = id} IN
    IF found = {} THEN "none"
    ELSE LET deletedImage == prevImages[CHOOSE k \in found : \A m \in found : k <= m]
         IN IF deletedImage.uploaded_by = Me THEN "none"
            ELSE IF deletedImage.uploaded_by = roomCreator
                   THEN "deleted by the room owner"
                   ELSE "deleted by uploader"

\* The postgres_changes callback for a DELETE: filter the id out.
OnDeleteEvent ==
  /\ channel # <<>>
  /\ Head(channel).type = "DELETE"
  /\ LET deletedImageId == Head(channel).row.id IN
       /\ images' = FilterOut(images, deletedImageId)
       /\ feedToast' = DeleteToast(images, deletedImageId)
  /\ channel' = Tail(channel)
  /\ UNCHANGED <<server, nextId>>
  /\ lastEvent' = Handled(Head(channel), images)
  /\ UNCHANGED <<loading, queries, loads, deleting, entered, roomCreator,
                 nDeletes>>
  /\ UNCHANGED <<upVars, subVars, bulkVars, libVars>>

\* The change feed delivers the next event a second time.
Redeliver ==
  /\ channel # <<>>
  /\ Len(channel) < MaxChan
  /\ channel' = <<Head(channel)>> \o channel
  /\ UNCHANGED <<server, nextId>>
  /\ UNCHANGED <<images, loading, queries, loads, feedToast, deleting,
                 entered, roomCreator, nDeletes, lastEvent>>
  /\ UNCHANGED <<upVars, subVars, bulkVars, libVars>>

\* ------------------------------------------------------------ the room feed
LoadOutcomes == {"ok", "error", "throw"}

\* getRoomImages: the rows newest first; an error answer and a thrown error
\* both give [] and neither is rethrown.
getRoomImages(outcome, rows) ==
  IF outcome = "ok"
    THEN [threw |-> FALSE, value |-> SortDesc(rows), failed |-> FALSE]
    ELSE [threw |-> FALSE, value |-> <<>>, failed |-> TRUE]

\* A handler that goes on without loadImages().
LoadImagesNotCalled == UNCHANGED <<loading, queries, loads>>

\* loadImages() up to its await: setLoading(true) and the query sent.
LoadImagesCall ==
  /\ queries + BagCardinality(loads) < MaxLoads
  /\ loading' = TRUE
  /\ queries' = queries + 1
  /\ UNCHANGED loads

\* The data service answers a query from the rows it holds at that moment,
\* or the query fails.
AnswerQuery(outcome) ==
  /\ queries > 0
  /\ queries' = queries - 1
  /\ loads' = loads (+) SetToBag({getRoomImages(outcome, server)})
  /\ UNCHANGED <<images, loading, feedToast, deleting, entered, roomCreator,
                 nDeletes, lastEvent>>
  /\ UNCHANGED <<upVars, netVars, subVars, bulkVars, libVars>>

\* loadImages() after its await, for a query in flight that returns
\* roomImages: setImages, or the toast of the catch block; finally
\* setLoading(false).
LoadImagesDone(roomImages) ==
  /\ BagIn(roomImages, loads)
  /\ IF roomImages.threw
       THEN /\ feedToast' = "Failed to load images"
            /\ images' = images
       ELSE /\ images' = roomImages.value
            /\ feedToast' = "none"
  /\ loading' = FALSE
  /\ loads' = loads (-) SetToBag({roomImages})
  /\ lastEvent' = NoEvent
  /\ UNCHANGED <<queries, deleting, entered, roomCreator, nDeletes>>
  /\ UNCHANGED <<upVars, netVars, subVars, bulkVars, libVars>>

\* setupRealtimeSubscription(): unsubscribe the previous channel if there is
\* one, then open a new channel and subscribe.
SetupRealtimeSubscription ==
  /\ subOpen' = TRUE
  /\ subStatus' = "joining"

\* The room effect: loadImages(), setupRealtimeSubscription().
EnterRoom ==
  /\ ~entered
  /\ entered' = TRUE
  /\ LoadImagesCall
  /\ SetupRealtimeSubscription
  /\ UNCHANGED <<images, feedToast, deleting, roomCreator, nDeletes,
                 lastEvent>>
  /\ UNCHANGED <<timers, nStatus, nScheduled, exited, exitStatus>>
  /\ UNCHANGED <<upVars, netVars, bulkVars, libVars>>

\* Someone uploads an image to the room: the local user from another
\* screen path or device, or another participant.
RemoteInsert(by) ==
  /\ entered
  /\ Len(channel) < MaxChan
  /\ nextId <= MaxIds
  /\ ServerInsertRow(by)
  /\ UNCHANGED <<upVars, feedVars, subVars, bulkVars, libVars>>

\* Another participant deletes a row.
RemoteDelete(id) ==
  /\ entered
  /\ Len(channel) < MaxChan
  /\ id \in {r.id : r \in server}
  /\ ServerDeleteRow(id)
  /\ UNCHANGED <<upVars, feedVars, subVars, bulkVars, libVars>>

isRoomCreator == Me = roomCreator

DeleteOutcomes == {"ok", "error", "throw"}

\* deleteRoomImage: true when the delete went through, false on an error
\* answer or a thrown error (which it catches).
deleteRoomImage(outcome) ==
  [threw |-> FALSE, value |-> outcome = "ok"]

\* handleDeleteImage's Delete button for an image of the feed: refused for
\* another user's image unless the local user created the room; otherwise
\* the image leaves the feed at once and deleteRoomImage starts.
DeleteImage(k) ==
  /\ k \in 1..Len(images)
  /\ nDeletes < MaxDeletes
  /\ nDeletes' = nDeletes + 1
  /\ LET image == images[k] IN
       IF image.uploaded_by # Me /\ ~isRoomCreator
         THEN /\ feedToast' = "You can only delete images you uploaded"
              /\ UNCHANGED <<images, deleting>>
         ELSE /\ images' = FilterOut(images, image.id)
              /\ deleting' = deleting \cup {image.id}
              /\ feedToast' = "none"
  /\ lastEvent' = NoEvent
  /\ UNCHANGED <<loading, queries, loads, entered, roomCreator>>
  /\ UNCHANGED <<upVars, netVars, subVars, bulkVars, libVars>>

\* deleteRoomImage(imageId) settles: a success toast, or an error toast and
\* loadImages().
DeleteSettled(id, outcome) ==
  /\ id \in deleting
  /\ Len(channel) < MaxChan
  /\ deleting' = deleting \ {id}
  /\ LET res == deleteRoomImage(outcome) IN
       IF ~res.threw /\ res.value
         THEN /\ ServerDeleteRow(id)
              /\ feedToast' = "Image deleted successfully"
              /\ UNCHANGED <<loading, queries, loads>>
         ELSE /\ UNCHANGED netVars
              /\ feedToast' = IF res.threw
                                 THEN "An error occurred while deleting the image"
                                 ELSE "Could not delete the image"
              /\ LoadImagesCall
  /\ lastEvent' = NoEvent
  /\ UNCHANGED <<images, entered, roomCreator, nDeletes>>
  /\ UNCHANGED <<upVars, subVars, bulkVars, libVars>>

\* ------------------------------------------------------------ bulk deletes
RECURSIVE DeleteEvents(_)
\* The DELETE events for a set of deleted rows, in id order.
DeleteEvents(S) ==
  IF S = {} THEN <<>>
  ELSE LET low == CHOOSE id \in S : \A q \in S : id <= q
       IN <<[type |-> "DELETE", row |-> Row(low, "")]>>
            \o DeleteEvents(S \ {low})

\* .delete().in('id', imageIds): the table loses the rows with these ids;
\* the change feed sends a DELETE for each row it had.
ServerDeleteRows(ids) ==
  /\ server' = {r \in server : r.id \notin ids}
  /\ nextId' = nextId
  /\ channel' = IF subOpen
                  THEN channel \o DeleteEvents({r.id : r \in server} \cap ids)
                  ELSE channel

RECURSIVE FilterOutAll(_, _)
\* prevImages.filter(img => img.id && !imageIds.includes(img.id))
FilterOutAll(s, ids) ==
  IF s = <<>> THEN <<>>
  ELSE IF Head(s).id \in ids THEN FilterOutAll(Tail(s), ids)
  ELSE <<Head(s)>> \o FilterOutAll(Tail(s), ids)

\* deleteMultipleRoomImages: true when the delete went through, false on
\* an error answer or a thrown error (which it catches).
deleteMultipleRoomImages(outcome) ==
  [threw |-> FALSE, value |-> outcome = "ok"]

\* handleDeleteSelectedImages with selectedImages = sel and its Delete
\* button: nothing selected and another user's image selected by someone
\* not the room creator are refused; otherwise the selected images leave
\* the feed at once and deleteMultipleRoomImages starts.
DeleteSelected(sel) ==
  /\ sel \subseteq IdsOf(images)
  /\ nDeletes < MaxDeletes
  /\ nDeletes' = nDeletes + 1
  /\ LET unauthorizedImages ==
           {k \in 1..Len(images) :
              /\ images[k].id \in sel
              /\ images[k].uploaded_by # Me /\ ~isRoomCreator}
     IN IF sel = {}
          THEN /\ feedToast' = "No images selected"
               /\ UNCHANGED <<images, bulk>>
          ELSE IF unauthorizedImages # {} /\ ~isRoomCreator
            THEN /\ feedToast' = "You can only delete images you uploaded"
                 /\ UNCHANGED <<images, bulk>>
            ELSE /\ images' = FilterOutAll(images, sel)
                 /\ bulk' = bulk \cup {[ids |-> sel, all |-> FALSE]}
                 /\ feedToast' = "none"
  /\ lastEvent' = NoEvent
  /\ UNCHANGED <<loading, queries, loads, deleting, entered, roomCreator>>
  /\ UNCHANGED <<upVars, netVars, subVars, libVars>>

\* handleDeleteAllImages and its Delete All button: refused unless the
\* local user created the room; with images in the feed, setImages([])
\* and deleteMultipleRoomImages starts.
DeleteAll ==
  /\ nDeletes < MaxDeletes
  /\ nDeletes' = nDeletes + 1
  /\ IF ~isRoomCreator
       THEN /\ feedToast' = "Only the room creator can delete all images"
            /\ UNCHANGED <<images, bulk>>
       ELSE IF images = <<>>
         THEN /\ feedToast' = "No images to delete"
              /\ UNCHANGED <<images, bulk>>
         ELSE /\ images' = <<>>
              /\ bulk' = bulk \cup {[ids |-> IdsOf(images), all |-> TRUE]}
              /\ feedToast' = "none"
  /\ lastEvent' = NoEvent
  /\ UNCHANGED <<loading, queries, loads, deleting, entered, roomCreator>>
  /\ UNCHANGED <<upVars, netVars, subVars, libVars>>

\* deleteMultipleRoomImages(ids) settles for the call b: a success toast,
\* or an error toast and loadImages().
BulkSettled(b, outcome) ==
  /\ b \in bulk
  /\ Len(channel) + Cardinality(b.ids) <= MaxChan
  /\ bulk' = bulk \ {b}
  /\ LET res == deleteMultipleRoomImages(outcome) IN
       IF ~res.threw /\ res.value
         THEN /\ ServerDeleteRows(b.ids)
              /\ feedToast' = "images deleted successfully"
              /\ UNCHANGED <<loading, queries, loads>>
         ELSE /\ UNCHANGED netVars
              /\ feedToast' =
                   IF res.threw
                     THEN "An error occurred while deleting the images"
                     ELSE "Some or all images could not be deleted"
              /\ LoadImagesCall
  /\ lastEvent' = NoEvent
  /\ UNCHANGED <<images, deleting, entered, roomCreator, nDeletes>>
  /\ UNCHANGED <<upVars, subVars, libVars>>

\* ------------------------------------------------- realtime subscription
Statuses == {"SUBSCRIBED", "CHANNEL_ERROR", "TIMED_OUT", "CLOSED"}

\* Math.pow(2, retryCount) * 2000
RECURSIVE Pow2(_)
Pow2(n) == IF n = 0 THEN 1 ELSE 2 * Pow2(n - 1)
BackoffDelay(retryCount) == Pow2(retryCount) * baseDelay

\* The statuses on which the subscribe callback goes on to schedule a
\* reconnect: CHANNEL_ERROR only (TIMED_OUT only logs).
ReconnectsOnAnyFailure(status) == status \in {"CHANNEL_ERROR", "TIMED_OUT"}
ReconnectsOn(status) == status = "CHANNEL_ERROR"

\* The subscribe callback: on CHANNEL_ERROR, `let retryCount = 0` and, while
\* retryCount < maxRetries, a timeout that calls setupRealtimeSubscription.
StatusReport(status) ==
  /\ subOpen
  /\ nStatus < MaxStatus
  /\ nStatus' = nStatus + 1
  /\ subStatus' = status
  /\ LET retryCount == 0 IN
       IF ReconnectsOn(status) /\ retryCount < subMaxRetries
         THEN /\ timers' = Append(timers, [delay |-> BackoffDelay(retryCount),
                                           retry |-> retryCount + 1])
              /\ nScheduled' = nScheduled + 1
         ELSE UNCHANGED <<timers, nScheduled>>
  /\ UNCHANGED <<subOpen, exited, exitStatus>>
  /\ UNCHANGED <<upVars, netVars, feedVars, bulkVars, libVars>>

\* A reconnect timeout fires: setupRealtimeSubscription().
ReconnectTimer ==
  /\ timers # <<>>
  /\ timers' = Tail(timers)
  /\ SetupRealtimeSubscription
  /\ UNCHANGED <<nStatus, nScheduled, exited, exitStatus>>
  /\ UNCHANGED <<upVars, netVars, feedVars, bulkVars, libVars>>

\* The cleanup as it would be if unsubscribing a channel that has already
\* reported CLOSED raised an error and left the reference as it was.
unsubscribeUnlessClosed(status) ==
  [threw |-> status = "CLOSED", closed |-> status # "CLOSED"]

\* subscription.current.unsubscribe() as the cleanup calls it: the call
\* returns a promise that the cleanup does not await, so whatever the
\* channel's status the call returns and the channel is left.
unsubscribe(status) == [threw |-> FALSE, closed |-> TRUE]

\* The effect cleanup on room exit: unsubscribe the current channel.
ExitRoom ==
  /\ entered
  /\ ~exited
  /\ exited' = TRUE
  /\ LET res == unsubscribe(subStatus) IN
       /\ subOpen' = (subOpen /\ ~res.closed)
       /\ exitStatus' = [status |-> subStatus, threw |-> res.threw]
  /\ subStatus' = IF subOpen THEN "CLOSED" ELSE subStatus
  /\ UNCHANGED <<timers, nStatus, nScheduled>>
  /\ UNCHANGED <<upVars, netVars, feedVars, bulkVars, libVars>>

\* ---------------------------------------------------------- the image cache
\* storage: const CACHE_EXPIRATION, 7 days in milliseconds
CACHE_EXPIRATION == 7 * 24 * 60 * 60 * 1000

Urls == 1..MaxUrls

\* No entry for a url in the IMAGE_CACHE object. An entry is written by
\* cacheImage alone, always with its cachedPath, so an entry is its
\* timestamp.
NoEntry == [has |-> FALSE, timestamp |-> 0]

\* storage.getCachedImage on a given IMAGE_CACHE at a given time: the entry
\* if there is one and Date.now() - timestamp < CACHE_EXPIRATION, else null.
getCachedImageIn(meta, t, url) ==
  IF meta[url].has /\ t - meta[url].timestamp < CACHE_EXPIRATION
    THEN meta[url]
    ELSE NoEntry

getCachedImage(url) == getCachedImageIn(cacheMeta, now, url)

\* imageUtils.getCachedImageUri: the cachedPath if getCachedImage gives an
\* entry and the file exists, else the url itself.
getCachedImageUri(url) ==
  IF getCachedImage(url).has /\ url \in files THEN "cachedPath" ELSE "url"

\* cacheImage's first test: the existing cached file is used, no download.
cacheImageHit(url) == getCachedImage(url).has /\ url \in files

\* storage.saveCachedImage(url, cachedPath) on a given IMAGE_CACHE.
saveCachedImage(meta, t, url) ==
  [meta EXCEPT ![url] = [has |-> TRUE, timestamp |-> t]]

DownloadOutcomes == {"ok", "non200", "throw"}

\* imageUtils.cacheImage(url): a hit returns the cached path; otherwise the
\* download, and on status 200 the entry is saved.
CacheImage(url, outcome) ==
  /\ IF cacheImageHit(url) \/ outcome # "ok"
       THEN UNCHANGED <<cacheMeta, files>>
       ELSE /\ files' = files \cup {url}
            /\ cacheMeta' = saveCachedImage(cacheMeta, now, url)
  /\ UNCHANGED <<now, nAdvance, saves>>
  /\ UNCHANGED <<upVars, netVars, feedVars, subVars, bulkVars, dlVars>>

\* What removeCachedImage(url) returns: false when getCachedImage gives no
\* entry, true otherwise (nothing in it throws in the model).
removeCachedImageReturns(url) == getCachedImage(url).has

\* imageUtils.removeCachedImage(url). With an entry: the file is deleted,
\* url is deleted from a local copy of the IMAGE_CACHE object, and every
\* other entry of the copy is saved again with saveCachedImage, each of
\* which reads the stored object, sets its own entry with a new timestamp
\* and writes the object back. The saves run together (Promise.all), so of
\* the other urls a non-empty set `refreshed` ends with the new timestamp.
RemoveCachedImage(url, refreshed) ==
  LET others == {u \in Urls \ {url} : cacheMeta[u].has} IN
  /\ refreshed \subseteq others
  /\ (refreshed = {}) = (others = {} \/ ~removeCachedImageReturns(url))
  /\ IF removeCachedImageReturns(url)
       THEN /\ files' = files \ {url}
            /\ cacheMeta' = [u \in Urls |->
                               IF u \in refreshed
                                 THEN saveCachedImage(cacheMeta, now, u)[u]
                                 ELSE cacheMeta[u]]
       ELSE UNCHANGED <<cacheMeta, files>>
  /\ UNCHANGED <<now, nAdvance, saves>>
  /\ UNCHANGED <<upVars, netVars, feedVars, subVars, bulkVars, dlVars>>

\* imageUtils.clearImageCache(): the cache directory is deleted and made
\* again; the IMAGE_CACHE object is not touched.
ClearImageCache ==
  /\ files' = {}
  /\ UNCHANGED <<cacheMeta, now, nAdvance, saves>>
  /\ UNCHANGED <<upVars, netVars, feedVars, subVars, bulkVars, dlVars>>

\* storage.clearExpiredImageCaches(): entries with
\* Date.now() - timestamp > CACHE_EXPIRATION are deleted from IMAGE_CACHE.
ClearExpiredImageCaches ==
  /\ cacheMeta' = [u \in Urls |->
                     IF cacheMeta[u].has
                        /\ now - cacheMeta[u].timestamp > CACHE_EXPIRATION
                       THEN NoEntry
                       ELSE cacheMeta[u]]
  /\ UNCHANGED <<files, now, nAdvance, saves>>
  /\ UNCHANGED <<upVars, netVars, feedVars, subVars, bulkVars, dlVars>>

\* Time passes: a millisecond, or a millisecond less than the expiration.
ClockSteps == {1, CACHE_EXPIRATION - 1}

AdvanceClock(d) ==
  /\ nAdvance < MaxClock
  /\ nAdvance' = nAdvance + 1
  /\ now' = now + d
  /\ UNCHANGED <<cacheMeta, files, saves>>
  /\ UNCHANGED <<upVars, netVars, feedVars, subVars, bulkVars, dlVars>>

\* ------------------------------------- cacheImagesWithPriority(urls, 'high')
\* A cacheImage call of the batch, not started; its copy of IMAGE_CACHE is
\* empty until saveCachedImage reads one.
EmptyCache == [u \in Urls |-> NoEntry]
IdleSave == [st |-> "idle", copy |-> EmptyCache]

\* One batch of the high priority path: batch.map(url => cacheImage(url))
\* under Promise.allSettled, so all the calls of the batch run together.
\* Each call starts with cacheImage's test: a hit returns at once, a miss
\* goes on to FileSystem.downloadAsync.
PreloadBatch(urls) ==
  /\ urls # {}
  /\ \A u \in Urls : saves[u].st \in {"idle", "done", "failed"}
  /\ saves' = [u \in Urls |->
                 IF u \notin urls THEN saves[u]
                 ELSE IF cacheImageHit(u) THEN [IdleSave EXCEPT !.st = "done"]
                 ELSE [IdleSave EXCEPT !.st = "download"]]
  /\ UNCHANGED <<cacheMeta, files, now, nAdvance>>
  /\ UNCHANGED <<upVars, netVars, feedVars, subVars, bulkVars, dlVars>>

\* cacheImage(url): the download settles. On status 200 the file is there
\* and saveCachedImage is called, which asks for the stored IMAGE_CACHE;
\* otherwise cacheImage returns null.
CacheDownloaded(url, outcome) ==
  /\ saves[url].st = "download"
  /\ IF outcome = "ok"
       THEN /\ files' = files \cup {url}
            /\ saves' = [saves EXCEPT ![url].st = "read"]
       ELSE /\ files' = files
            /\ saves' = [saves EXCEPT ![url].st = "failed"]
  /\ UNCHANGED <<cacheMeta, now, nAdvance>>
  /\ UNCHANGED <<upVars, netVars, feedVars, subVars, bulkVars, dlVars>>

\* saveCachedImage(url) after `await getCachedImages()`: it holds the
\* stored object as it is now, sets its own entry in that copy and asks
\* AsyncStorage.setItem to write the copy.
SaveRead(url) ==
  /\ saves[url].st = "read"
  /\ saves' = [saves EXCEPT ![url] =
                 [st |-> "write", copy |-> saveCachedImage(cacheMeta, now, url)]]
  /\ UNCHANGED <<cacheMeta, files, now, nAdvance>>
  /\ UNCHANGED <<upVars, netVars, feedVars, subVars, bulkVars, dlVars>>

\* AsyncStorage.setItem(IMAGE_CACHE, copy) is done: the stored object is
\* this call's copy; saveCachedImage returns true and cacheImage the path.
SaveWrite(url) ==
  /\ saves[url].st = "write"
  /\ cacheMeta' = saves[url].copy
  /\ saves' = [saves EXCEPT ![url] = [IdleSave EXCEPT !.st = "done"]]
  /\ UNCHANGED <<files, now, nAdvance>>
  /\ UNCHANGED <<upVars, netVars, feedVars, subVars, bulkVars, dlVars>>

\* --------------------------------------------------- downloadMultipleImages
PermissionStatuses == {"granted", "denied", "undetermined", "throw"}
AssetOutcomes == {"ok", "throw"}
Platforms == {"android", "ios"}

NoResult == [success |-> FALSE, count |-> 0, permissionDenied |-> FALSE,
             returned |-> FALSE]

\* The value downloadMultipleImages returns (permissionDenied is absent
\* from the two returns that do not set it).
Result(success, count, permissionDenied) ==
  [success |-> success, count |-> count,
   permissionDenied |-> permissionDenied, returned |-> TRUE]

\* The permission test: the function goes on to the items only when the
\* status is 'granted'.
ProceedsAlways(status) == TRUE
Proceeds(status) == status = "granted"

\* After the item at index i of n the for loop goes on, or it has ended
\* and the function returns { success: successCount > 0, count }.
AfterItem(i, n, count) ==
  IF i < n
    THEN /\ dlPc' = "loop"
         /\ dlIndex' = i + 1
         /\ dlResult' = dlResult
    ELSE /\ dlPc' = "done"
         /\ dlIndex' = i
         /\ dlResult' = Result(count > 0, count, FALSE)

\* downloadMultipleImages(images), n = images.length, with the status that
\* requestPermissionsAsync gives (or its throwing, caught by the outer
\* catch): the early return, or on to the first item.
DownloadStart(n, status) ==
  /\ dlPc = "idle"
  /\ dlImages' = n
  /\ dlStatus' = status
  /\ successCount' = 0
  /\ IF status = "throw"
       THEN /\ dlPc' = "done"
            /\ dlResult' = Result(FALSE, 0, FALSE)
            /\ UNCHANGED dlIndex
       ELSE IF ~Proceeds(status)
         THEN /\ dlPc' = "done"
              /\ dlResult' = Result(FALSE, 0, TRUE)
              /\ UNCHANGED dlIndex
         ELSE AfterItem(0, n, 0)
  /\ UNCHANGED <<platform, dlLookups, dlDownloads, dlAssets>>
  /\ UNCHANGED <<upVars, netVars, feedVars, subVars, bulkVars, cacheVars>>

\* A turn of the for loop for an image that is not cached, up to its
\* await of FileSystem.downloadAsync(image_url, tempFilePath): the call
\* takes no timeout and no abort signal, and the loop waits for it.
DownloadRequest ==
  /\ dlPc = "loop"
  /\ getCachedImageUri(dlIndex) = "url"
  /\ dlPc' = "downloading"
  /\ dlLookups' = dlLookups + 1
  /\ dlDownloads' = dlDownloads + 1
  /\ UNCHANGED <<dlImages, dlIndex, successCount, dlStatus, dlResult,
                 platform, dlAssets>>
  /\ UNCHANGED <<upVars, netVars, feedVars, subVars, bulkVars, cacheVars>>

\* The rest of a turn of the for loop, for the image at dlIndex: for a
\* cached image from getCachedImageUri on, for another from the moment its
\* download settles (a status other than 200 skips the item);
\* createAssetAsync; on Android the album calls; successCount++.
\* A throw anywhere ends the turn in the inner catch.
DownloadItem(download, asset, album) ==
  /\ \/ dlPc = "downloading"
     \/ dlPc = "loop" /\ getCachedImageUri(dlIndex) = "cachedPath"
  /\ LET downloads == dlPc = "downloading"
         haveFile == ~downloads \/ download = "ok"
         created == haveFile /\ asset = "ok"
         counts == created /\ (platform = "android" => album = "ok")
         count == IF counts THEN successCount + 1 ELSE successCount
     IN /\ dlLookups' = IF downloads THEN dlLookups ELSE dlLookups + 1
        /\ dlDownloads' = dlDownloads
        /\ dlAssets' = IF created THEN dlAssets + 1 ELSE dlAssets
        /\ successCount' = count
        /\ AfterItem(dlIndex, dlImages, count)
  /\ UNCHANGED <<dlImages, dlStatus, platform>>
  /\ UNCHANGED <<upVars, netVars, feedVars, subVars, bulkVars, cacheVars>>

\* ---------------------------------------------------------- specifications
InitUpload ==
  /\ upPc = "idle"
  /\ totalUploads = 0
  /\ queue = <<>>
  /\ batch = <<>>
  /\ job = [i \in Uris |-> IdleJob]
  /\ retries = [i \in Uris |-> 0]
  /\ completedUploads = 0
  /\ failedUploads = 0
  /\ uploadProgress = 0
  /\ progressTimer = FALSE
  /\ ticks = 0
  /\ uploadToast = "none"
  /\ uploading = FALSE
  /\ tries = [i \in Uris |-> 0]
  /\ rowOf = [i \in Uris |-> Null]
  /\ counted = [i \in Uris |-> [c |-> 0, f |-> 0]]

InitNet ==
  /\ server = {}
  /\ channel = <<>>
  /\ nextId = 1

InitFeed ==
  /\ images = <<>>
  /\ loading = TRUE
  /\ queries = 0
  /\ loads = EmptyBag
  /\ feedToast = "none"
  /\ deleting = {}
  /\ roomCreator \in Users
  /\ nDeletes = 0
  /\ lastEvent = NoEvent

InitSub ==
  /\ timers = <<>>
  /\ nStatus = 0
  /\ nScheduled = 0
  /\ exited = FALSE
  /\ exitStatus = [status |-> "none", threw |-> FALSE]

InitCache ==
  /\ cacheMeta = [u \in Urls |-> NoEntry]
  /\ files = {}
  /\ now = 0
  /\ nAdvance = 0
  /\ saves = [u \in Urls |-> IdleSave]

InitDownload ==
  /\ dlPc = "idle"
  /\ dlImages = 0
  /\ dlIndex = 0
  /\ successCount = 0
  /\ dlStatus = "none"
  /\ dlResult = NoResult
  /\ platform = "android"
  /\ dlLookups = 0
  /\ dlDownloads = 0
  /\ dlAssets = 0

\* No bulk delete, an empty cache, no download: the parts of the app the
\* upload, feed and subscription models leave alone.
InitRest ==
  /\ bulk = {}
  /\ InitCache
  /\ InitDownload

\* The screen as constructed, before the room effect has run.
Init ==
  /\ InitUpload /\ InitNet /\ InitFeed /\ InitSub /\ InitRest
  /\ entered = FALSE
  /\ subOpen = FALSE
  /\ subStatus = "none"

\* The screen of an empty room after the room effect and its load: the
\* state in which the user picks images to upload.
InitEntered ==
  /\ InitUpload /\ InitNet /\ InitSub /\ InitRest
  /\ images = <<>>
  /\ loading = FALSE
  /\ queries = 0
  /\ loads = EmptyBag
  /\ feedToast = "none"
  /\ deleting = {}
  /\ roomCreator \in Users
  /\ nDeletes = 0
  /\ lastEvent = NoEvent
  /\ entered = TRUE
  /\ subOpen = TRUE
  /\ subStatus = "SUBSCRIBED"

NextUpload ==
  \/ \E n \in 1..MaxUris : StartBatch(n)
  \/ \E i \in Uris, o \in CloudOutcomes : CloudAttempt(i, o)
  \/ \E i \in Uris, o \in DbOutcomes : DbInsert(i, o)
  \/ DelayDone
  \/ RetireBatch
  \/ ProgressTick
  \/ OnInsertEvent

NextFeed ==
  \/ EnterRoom
  \/ \E o \in LoadOutcomes : AnswerQuery(o)
  \/ \E r \in BagToSet(loads) : LoadImagesDone(r)
  \/ \E by \in Users : RemoteInsert(by)
  \/ \E id \in Ids : RemoteDelete(id)
  \/ OnInsertEvent
  \/ OnDeleteEvent
  \/ Redeliver
  \/ \E k \in 1..Len(images) : DeleteImage(k)
  \/ \E id \in Ids, o \in DeleteOutcomes : DeleteSettled(id, o)

NextSub ==
  \/ EnterRoom
  \/ \E s \in Statuses : StatusReport(s)
  \/ ReconnectTimer
  \/ ExitRoom

\* The screen of a room whose images have been loaded: rows 1..k of the
\* table, each uploaded by some user, shown newest first.
InitLoaded ==
  /\ InitUpload /\ InitSub /\ InitRest
  /\ \E k \in 1..MaxIds :
       /\ nextId = k + 1
       /\ \E by \in [1..k -> Users] :
            server = {Row(id, by[id]) : id \in 1..k}
  /\ channel = <<>>
  /\ images = SortDesc(server)
  /\ loading = FALSE
  /\ queries = 0
  /\ loads = EmptyBag
  /\ feedToast = "none"
  /\ deleting = {}
  /\ roomCreator \in Users
  /\ nDeletes = 0
  /\ lastEvent = NoEvent
  /\ entered = TRUE
  /\ subOpen = TRUE
  /\ subStatus = "SUBSCRIBED"

\* The cache with the clock at some start time, before any image is cached.
InitCacheOnly ==
  /\ InitUpload /\ InitNet /\ InitFeed /\ InitSub
  /\ entered = FALSE
  /\ subOpen = FALSE
  /\ subStatus = "none"
  /\ bulk = {}
  /\ InitCache
  /\ InitDownload

\* Before a download: some urls have a cache entry, some have their file,
\* on either platform.
InitBeforeDownload ==
  /\ InitUpload /\ InitNet /\ InitFeed /\ InitSub
  /\ entered = FALSE
  /\ subOpen = FALSE
  /\ subStatus = "none"
  /\ bulk = {}
  /\ \E cached \in SUBSET Urls :
       cacheMeta = [u \in Urls |->
                      IF u \in cached THEN [has |-> TRUE, timestamp |-> 0]
                                      ELSE NoEntry]
  /\ files \in SUBSET Urls
  /\ now = 0
  /\ nAdvance = 0
  /\ saves = [u \in Urls |-> IdleSave]
  /\ dlPc = "idle"
  /\ dlImages = 0
  /\ dlIndex = 0
  /\ successCount = 0
  /\ dlStatus = "none"
  /\ dlResult = NoResult
  /\ platform \in Platforms
  /\ dlLookups = 0
  /\ dlDownloads = 0
  /\ dlAssets = 0

NextDelete ==
  \/ \E k \in 1..Len(images) : DeleteImage(k)
  \/ \E id \in Ids, o \in DeleteOutcomes : DeleteSettled(id, o)
  \/ \E sel \in SUBSET Ids : DeleteSelected(sel)
  \/ DeleteAll
  \/ \E b \in bulk, o \in DeleteOutcomes : BulkSettled(b, o)
  \/ \E o \in LoadOutcomes : AnswerQuery(o)
  \/ \E r \in BagToSet(loads) : LoadImagesDone(r)
  \/ \E by \in Users : RemoteInsert(by)
  \/ OnInsertEvent
  \/ OnDeleteEvent

NextCache ==
  \/ \E u \in Urls, o \in DownloadOutcomes : CacheImage(u, o)
  \/ \E u \in Urls, refreshed \in SUBSET Urls : RemoveCachedImage(u, refreshed)
  \/ ClearImageCache
  \/ ClearExpiredImageCaches
  \/ \E d \in ClockSteps : AdvanceClock(d)

NextPreload ==
  \/ \E urls \in SUBSET Urls : PreloadBatch(urls)
  \/ \E u \in Urls, o \in DownloadOutcomes : CacheDownloaded(u, o)
  \/ \E u \in Urls : SaveRead(u)
  \/ \E u \in Urls : SaveWrite(u)
  \/ \E d \in ClockSteps : AdvanceClock(d)

NextDownload ==
  \/ \E n \in 0..MaxUrls, st \in PermissionStatuses : DownloadStart(n, st)
  \/ DownloadRequest
  \/ \E d \in DownloadOutcomes, a \in AssetOutcomes, al \in AssetOutcomes :
       DownloadItem(d, a, al)

SpecUpload == InitEntered /\ [][NextUpload]_vars
SpecDelete == InitLoaded /\ [][NextDelete]_vars
SpecCache == InitCacheOnly /\ [][NextCache]_vars
SpecPreload == InitCacheOnly /\ [][NextPreload]_vars
SpecDownload == InitBeforeDownload /\ [][NextDownload]_vars

\* The steps of downloadMultipleImages that wait for nothing but the
\* device: the permission request, the cache lookup, the media library
\* calls.
DownloadLocalStep ==
  \/ \E n \in 0..MaxUrls, st \in PermissionStatuses : DownloadStart(n, st)
  \/ DownloadRequest
  \/ /\ dlPc = "loop"
     /\ \E d \in DownloadOutcomes, a \in AssetOutcomes, al \in AssetOutcomes :
          DownloadItem(d, a, al)

\* downloadMultipleImages where every step that waits for the device alone
\* is eventually taken. The answer to a download request is the server's
\* and the network's to give: nothing in the code makes it come.
SpecDownloadFair == SpecDownload /\ WF_vars(DownloadLocalStep)
SpecFeed == Init /\ [][NextFeed]_vars
SpecSub == Init /\ [][NextSub]_vars

\* ------------------------------------------------------------------ claims
\* Uri i has a row: its record was inserted and returned by uploadRoomImage.
Persisted(i) == rowOf[i] # Null

\* Every request uploadToCloudinary may make for uri i was made and failed.
Exhausted(i) ==
  /\ job[i].st = "settled"
  /\ job[i].attempt = MAX_RETRIES
  /\ ~job[i].url

Submitted == 1..totalUploads

\* C1: when the loop has ended, every item that failed on every attempt the
\* retry cap allows was counted in failedUploads exactly once and never in
\* completedUploads, has no row in the feed, and (when every item either got
\* its row or exhausted its attempts) the two counters are the numbers of
\* persisted and of exhausted items.
C1_ExhaustedCountedFailed ==
  upPc = "done" =>
    /\ \A i \in Submitted :
         Exhausted(i) =>
           /\ counted[i].f = 1
           /\ counted[i].c = 0
           /\ rowOf[i] \notin IdsOf(images)
    /\ (\A i \in Submitted : Persisted(i) \/ Exhausted(i)) =>
         /\ completedUploads = Cardinality({i \in Submitted : Persisted(i)})
         /\ failedUploads = Cardinality({i \in Submitted : Exhausted(i)})

\* C2: completedUploads + failedUploads never exceeds totalUploads during a
\* batch, and equals it once the queue loop has ended.
C2_CountsWithinTotal ==
  /\ upPc # "idle" => completedUploads + failedUploads <= totalUploads
  /\ upPc \in {"done", "retired"} =>
       completedUploads + failedUploads = totalUploads

\* C2 witness: a batch has ended in which one item got its row and another
\* did not.
C2_Witness ==
  /\ upPc = "done"
  /\ \E i, j \in Submitted : Persisted(i) /\ ~Persisted(j)
  /\ completedUploads + failedUploads = totalUploads

\* C3: the requests made for one item, over every call made for it, never
\* exceed maxRetries; an item waits in the queue for a retry only with fewer
\* than maxRetries requests made, and is counted failed only with all of them
\* made.
C3_AttemptsCapped ==
  \A i \in Uris :
    /\ tries[i] <= maxRetries
    /\ (retries[i] > 0 /\ i \in Range(queue)) => tries[i] < maxRetries
    /\ counted[i].f > 0 => tries[i] >= maxRetries

\* C3 witness: an item has used all its requests, each of which failed.
C3_Witness ==
  \E i \in Submitted : Exhausted(i) /\ tries[i] = maxRetries

\* C4: the toast after the loop is "all" exactly when every item got its
\* row, "partial" exactly when some but not all did, "failed" exactly when
\* none did, and never the raw-error toast.
C4_ThreeOutcomes ==
  upPc = "done" =>
    LET persisted == Cardinality({i \in Submitted : Persisted(i)}) IN
      /\ uploadToast \in {"all", "partial", "failed"}
      /\ uploadToast = "all" <=> persisted = totalUploads
      /\ uploadToast = "partial" <=> (0 < persisted /\ persisted < totalUploads)
      /\ uploadToast = "failed" <=> persisted = 0

\* C5: a stale INSERT for an id whose optimistic delete is not yet confirmed
\* (its deleteRoomImage call is still in flight) and which is absent from
\* the feed leaves it absent.
C5_DeletedStaysAbsent ==
  [][(/\ OnInsertEvent
      /\ Head(channel).row.id \in deleting
      /\ Head(channel).row.id \notin IdsOf(images))
     => Head(channel).row.id \notin IdsOf(images')]_vars

\* C6: the feed never holds two items with the same id.
C6_NoDuplicateIds == NoDuplicates(images)

\* C6 witness: the INSERT handler has just been given an event for an id the
\* feed of two items already held (it is not at the head, where a new item
\* goes).
C6_Witness ==
  /\ lastEvent.type = "INSERT"
  /\ Len(images) = 2
  /\ images[2].id = lastEvent.row.id

\* C7: at most maxRetries reconnect timeouts are ever scheduled for the room
\* session.
C7_AtMostMaxRetriesReconnects == nScheduled <= subMaxRetries

\* C8: once the upload of an item has succeeded (its callback has settled
\* with a row), the row is in the feed, whether or not its INSERT event has
\* been delivered.
C8_MergedByUploadPath ==
  \A i \in Submitted :
    (job[i].st = "settled" /\ Persisted(i)) => rowOf[i] \in IdsOf(images)

\* C9: when a load whose getRoomImages failed completes, the error toast is
\* shown and the feed is still loading.
C9_FailedLoadStaysLoading ==
  [][\A r \in BagToSet(loads) :
       (LoadImagesDone(r) /\ r.failed)
         => (loading' /\ feedToast' = "Failed to load images")]_vars

\* C10: while a batch runs uploadProgress never decreases, and the step that
\* ends the loop sets it to exactly 1.
C10_ProgressMonotone ==
  [][/\ upPc \in {"await", "delay"} => uploadProgress' >= uploadProgress
     /\ (upPc # "done" /\ upPc' = "done") => uploadProgress' = ProgressOne]_vars

\* C20: a TIMED_OUT status report schedules no reconnect: no timeout that
\* calls setupRealtimeSubscription is added.
C20_TimedOutNoReconnect ==
  [][StatusReport("TIMED_OUT")
       => (timers' = timers /\ nScheduled' = nScheduled)]_vars

\* C20 witness: the subscription has reported TIMED_OUT and no reconnect is
\* pending or was ever scheduled.
C20_Witness ==
  /\ subStatus = "TIMED_OUT"
  /\ timers = <<>>
  /\ nScheduled = 0

\* C15: an item whose first two requests failed and whose third succeeded
\* (and whose row was inserted) has been counted once in completedUploads
\* and never in failedUploads; when the loop has ended with one such item
\* and every other item persisted at its first request, completedUploads is
\* the number of items and failedUploads is 0.
C15_ThirdAttemptCountedOnce ==
  LET third(i) == /\ job[i].st = "settled"
                  /\ job[i].url
                  /\ job[i].attempt = MAX_RETRIES
                  /\ Persisted(i)
  IN /\ \A i \in Submitted : third(i) => counted[i] = [c |-> 1, f |-> 0]
     /\ (/\ upPc = "done"
         /\ \E i \in Submitted :
              /\ third(i)
              /\ \A k \in Submitted \ {i} : Persisted(k) /\ tries[k] = 1)
          => (completedUploads = totalUploads /\ failedUploads = 0)

\* C15 witness: a batch of three has ended in which one item needed its
\* third request and the two others succeeded at once.
C15_Witness ==
  /\ upPc = "done"
  /\ totalUploads = 3
  /\ \E i \in Submitted :
       /\ job[i].url /\ job[i].attempt = MAX_RETRIES /\ tries[i] = 3
       /\ Persisted(i)
       /\ \A k \in Submitted \ {i} : Persisted(k) /\ tries[k] = 1
  /\ completedUploads = 3
  /\ failedUploads = 0

\* C16: when the loop has ended and no request and no insert of the batch
\* has failed (every item succeeded at its first attempt), completedUploads
\* is the number of items, failedUploads is 0 and uploadProgress is 1.
C16_AllFirstAttempt ==
  (/\ upPc = "done"
   /\ \A i \in Submitted :
        tries[i] <= 1 /\ (job[i].st = "settled" => Persisted(i)))
    => /\ completedUploads = totalUploads
       /\ failedUploads = 0
       /\ uploadProgress = ProgressOne

\* C16 witness: a batch of MaxUris items has ended, each persisted at its
\* first request.
C16_Witness ==
  /\ upPc = "done"
  /\ totalUploads = MaxUris
  /\ \A i \in Submitted : tries[i] = 1 /\ Persisted(i)
  /\ uploadProgress = ProgressOne

\* C17: the INSERT handler given an event for an id the feed already holds
\* leaves the feed unchanged, so the same INSERT applied twice gives the
\* feed that applying it once gives.
C17_InsertIdempotent ==
  /\ lastEvent.type = "INSERT" =>
        InsertUpdater(images, lastEvent.row) = images
  /\ \A by \in Users, id \in Ids :
        InsertUpdater(InsertUpdater(images, Row(id, by)), Row(id, by))
          = InsertUpdater(images, Row(id, by))
  /\ (channel # <<>> /\ Head(channel).type = "INSERT"
        /\ Head(channel).row.id \in IdsOf(images))
       => InsertUpdater(images, Head(channel).row) = images

\* C17 witness: the INSERT handler has just run for an id the feed held
\* already, and the feed holds it still.
C17_Witness ==
  /\ lastEvent.type = "INSERT"
  /\ lastEvent.had
  /\ lastEvent.row.id \in IdsOf(images)

\* C18: the DELETE handler given an event for an id the feed does not hold
\* leaves the feed as it is and shows no toast.
C18_DeleteAbsentNoOp ==
  [][(/\ OnDeleteEvent
      /\ Head(channel).row.id \notin IdsOf(images))
     => (images' = images /\ feedToast' = "none")]_vars

\* C18 witness: the DELETE handler has just run for an id the feed did not
\* hold, on a feed that is not empty.
C18_Witness ==
  /\ lastEvent.type = "DELETE"
  /\ ~lastEvent.had
  /\ images # <<>>

\* C11: a removeCachedImage(url) that returns true leaves no entry for the
\* url in the cache metadata, so the getCachedImage(url) that follows
\* gives null.
C11_RemovedEntryGone ==
  [][\A u \in Urls, r \in SUBSET Urls :
       (RemoveCachedImage(u, r) /\ removeCachedImageReturns(u))
         => ~getCachedImageIn(cacheMeta', now', u).has]_vars

\* C12: with the permission not granted, downloadMultipleImages has
\* returned { success: false, count: 0, permissionDenied: true } and has
\* looked up, downloaded and saved nothing.
C12_DeniedDoesNothing ==
  dlStatus \in {"denied", "undetermined"}
    => /\ dlPc = "done"
       /\ dlResult = Result(FALSE, 0, TRUE)
       /\ dlLookups = 0
       /\ dlDownloads = 0
       /\ dlAssets = 0

\* C12 witness: a download of at least one image was refused the
\* permission and has returned.
C12_Witness ==
  /\ dlStatus = "denied"
  /\ dlImages > 0
  /\ dlPc = "done"
  /\ dlResult.returned
  /\ dlResult.permissionDenied

\* C13: once downloadMultipleImages has returned with the permission
\* granted, every item was attempted, count is the number of items saved
\* to the library and success is count > 0; when the permission request
\* threw, the result is { success: false, count: 0 }.
C13_CountIsSaved ==
  /\ (dlPc = "done" /\ dlStatus = "granted")
       => /\ dlLookups = dlImages
          /\ dlResult.count = dlAssets
          /\ dlResult.success = (dlResult.count > 0)
  /\ (dlPc = "done" /\ dlStatus = "throw")
       => dlResult = Result(FALSE, 0, FALSE)

\* C19: an entry at least CACHE_EXPIRATION old is a miss for
\* getCachedImage, cacheImage and getCachedImageUri whether or not its
\* file exists, and a younger entry whose file is gone is a miss too.
C19_MissUnlessYoungWithFile ==
  \A u \in Urls :
    LET age == now - cacheMeta[u].timestamp
        old == cacheMeta[u].has /\ age >= CACHE_EXPIRATION
        young == cacheMeta[u].has /\ age < CACHE_EXPIRATION
        miss == /\ ~getCachedImage(u).has
                /\ ~cacheImageHit(u)
                /\ getCachedImageUri(u) = "url"
    IN /\ old => miss
       /\ (young /\ u \notin files) => miss

InFlight == {i \in Uris : job[i].st \in {"cloud", "db"}}

\* C23: at most batchSize (2) uploads of a run of uploadMultipleImages are
\* in flight at any moment, and a group is started only when no upload of
\* an earlier group is still in flight.
C23_AtMostTwoInFlight ==
  [][/\ Cardinality(InFlight') <= batchSize
     /\ \A i \in Uris :
          (job[i].st \in {"idle", "settled"} /\ job'[i].st = "cloud")
            => InFlight = {}]_vars

\* C23 witness: the second group of a batch of three is in flight, after
\* both uploads of the first group have settled.
C23_Witness ==
  /\ upPc = "await"
  /\ totalUploads = 3
  /\ job[1].st = "settled" /\ job[2].st = "settled"
  /\ InFlight = {3}

\* C24: an item that settles leaves the sibling in flight as it is, and
\* when the loop ends every submitted item has been attempted and has
\* settled, with its row or without one, none left in the queue.
C24_FailureContained ==
  [][/\ \A i, k \in Uris :
          (/\ i # k
           /\ i \in InFlight /\ job'[i].st = "settled"
           /\ k \in InFlight)
            => job'[k] = job[k]
     /\ (upPc # "done" /\ upPc' = "done")
          => \A i \in 1..totalUploads' :
               /\ tries'[i] >= 1
               /\ job'[i].st = "settled"
               /\ i \notin Range(queue')]_vars

\* C24 witness: a batch of three has ended in which the first item failed
\* while its sibling and the item queued behind them got their rows.
C24_Witness ==
  /\ upPc = "done"
  /\ totalUploads = 3
  /\ job[1].st = "settled" /\ ~Persisted(1) /\ tries[1] >= 1
  /\ Persisted(2)
  /\ Persisted(3)

\* C25: after k CHANNEL_ERROR reports in a row, each followed by its
\* reconnect attempt, the timeout scheduled by the next CHANNEL_ERROR has
\* the delay baseDelay * 2^k: 2000, 4000, 8000.
C25_BackoffDoubles ==
  [][(/\ nStatus' = nStatus + 1
      /\ subStatus' = "CHANNEL_ERROR"
      /\ nScheduled = nStatus
      /\ timers = <<>>
      /\ nScheduled < subMaxRetries)
     => /\ timers' # <<>>
        /\ timers'[Len(timers')].delay = BackoffDelay(nScheduled)]_vars

\* C26: when the loop has ended, completedUploads is the number of items
\* whose record was inserted, and no item without a record was counted as
\* completed.
C26_CompletedIsPersisted ==
  upPc = "done" =>
    /\ completedUploads = Cardinality({i \in Submitted : Persisted(i)})
    /\ \A i \in Submitted : ~Persisted(i) => counted[i].c = 0

\* C27: when a load whose query succeeded completes with no other load
\* pending, every event sent so far delivered and no local delete made,
\* the feed is the server's current list.
C27_LoadAndEventsConverge ==
  [][\A r \in BagToSet(loads) :
       (/\ LoadImagesDone(r)
        /\ ~r.failed
        /\ queries = 0 /\ loads' = EmptyBag
        /\ channel = <<>>
        /\ nDeletes = 0)
         => images' = SortDesc(server')]_vars

\* C28: once the effect cleanup has run, no subscription of the room is
\* open.
C28_NoSubscriptionAfterExit == exited => ~subOpen

\* C30: removeCachedImage(url) leaves the entry of every other url as it
\* was, timestamp included.
C30_RemoveKeepsOthers ==
  [][\A u \in Urls, r \in SUBSET Urls :
       RemoveCachedImage(u, r)
         => \A v \in Urls \ {u} : cacheMeta'[v] = cacheMeta[v]]_vars

C22_TransfersBounded ==
  /\ (dlPc = "downloading") ~> (dlPc # "downloading")
  /\ \A i \in Uris : (job[i].st = "cloud") ~> (job[i].st # "cloud")

\* C29: every cacheImage call of a preload batch that has returned its
\* path has its url's entry in the stored cache metadata, whatever the
\* calls for other urls that ran at the same time did.
C29_NoLostCacheEntry ==
  \A u \in Urls : saves[u].st = "done" => cacheMeta[u].has

====
